---- MODULE Spec2Model ----
(***************************************************************************)
(* go-tiled: loading a Tiled map (tiled.New), resolving every tile layer's *)
(* raw global IDs against the map's tilesets (Map.UnmarshalXML,            *)
(* decodeGroupTileDefs, decodeTileDefs) and the accessors of a resolved    *)
(* layer (GetTileDefAtIndex, GetTileDefAtPosition).                        *)
(***************************************************************************)
EXTENDS Integers, Sequences, FiniteSets, TLC

(***************************************************************************)
(* uint32.  GlobalID and TileID are Go uint32 values.  TLC's integers are  *)
(* 32-bit signed, so a uint32 is kept as its two 16-bit halves and the     *)
(* operators the code uses on it (&, &^, |, <, -) are computed on the      *)
(* halves.                                                                 *)
(***************************************************************************)
Half == 2 ^ 16

U32(h, l) == [hi |-> h, lo |-> l]

Zero32 == U32(0, 0)

\* a small natural as a uint32
ToU32(n) == U32(n \div Half, n % Half)

RECURSIVE BitAnd(_, _)
BitAnd(a, b) ==
    IF a = 0 \/ b = 0 THEN 0
    ELSE (a % 2) * (b % 2) + 2 * BitAnd(a \div 2, b \div 2)

RECURSIVE BitOr(_, _)
BitOr(a, b) ==
    IF a = 0 THEN b
    ELSE IF b = 0 THEN a
    ELSE (IF a % 2 = 1 \/ b % 2 = 1 THEN 1 ELSE 0) + 2 * BitOr(a \div 2, b \div 2)

RECURSIVE BitAndNot(_, _)
BitAndNot(a, b) ==
    IF a = 0 THEN 0
    ELSE (a % 2) * (1 - (b % 2)) + 2 * BitAndNot(a \div 2, b \div 2)

\* x & y
And32(x, y) == U32(BitAnd(x.hi, y.hi), BitAnd(x.lo, y.lo))

\* x | y
Or32(x, y) == U32(BitOr(x.hi, y.hi), BitOr(x.lo, y.lo))

\* x &^ y
AndNot32(x, y) == U32(BitAndNot(x.hi, y.hi), BitAndNot(x.lo, y.lo))

\* x < y, unsigned
Less32(x, y) == x.hi < y.hi \/ (x.hi = y.hi /\ x.lo < y.lo)

\* x - y, wrapping modulo 2^32
Sub32(x, y) ==
    LET borrow == IF x.lo < y.lo THEN 1 ELSE 0
    IN  U32((x.hi - y.hi - borrow) % Half, (x.lo - y.lo) % Half)

(***************************************************************************)
(* GlobalID: the bitmasks for tile orientation and the methods on them.    *)
(***************************************************************************)
TileFlippedHorizontally == U32(32768, 0)      \* 0x80000000

TileFlippedVertically == U32(16384, 0)        \* 0x40000000

TileFlippedDiagonally == U32(8192, 0)         \* 0x20000000

TileFlipped ==
    Or32(Or32(TileFlippedHorizontally, TileFlippedVertically), TileFlippedDiagonally)

IsFlippedHorizontally(g) == And32(g, TileFlippedHorizontally) # Zero32

\* mutant: the vertical test reads the horizontal bit
IsFlippedVerticallyWrongMask(g) == And32(g, TileFlippedHorizontally) # Zero32

IsFlippedVertically(g) == And32(g, TileFlippedVertically) # Zero32

IsFlippedDiagonally(g) == And32(g, TileFlippedDiagonally) # Zero32

\* mutant: the diagonal flag is left in the bare ID
BareIDKeepsDiagonal(g) ==
    AndNot32(g, Or32(TileFlippedHorizontally, TileFlippedVertically))

BareID(g) == AndNot32(g, TileFlipped)

\* the Tileset-relative TileID of g in tileset t
TileID(g, t) == Sub32(BareID(g), t.FirstGlobalID)

(***************************************************************************)
(* Values.  A Go pointer to a slice (Tilesets, TileLayers, Groups, Tiles)  *)
(* is nil or holds a sequence; a pointer to a Tileset is the tileset's     *)
(* Name (0 is nil), a pointer to a Tile its position in the tileset's      *)
(* Tiles (0 is nil).  An error is nil or names the sentinels it wraps      *)
(* (errors.Is) and the GlobalID it carries.                                *)
(***************************************************************************)
NilPtr == [nil |-> TRUE, v |-> <<>>]

PtrTo(s) == [nil |-> FALSE, v |-> s]

NoErr == [nil |-> TRUE, is |-> {}, gid |-> Zero32]

Err(sentinels, g) == [nil |-> FALSE, is |-> sentinels, gid |-> g]

\* fmt.Errorf("...: %w", err): the wrapped error keeps what it is
Wrap(sentinels, e) == [nil |-> FALSE, is |-> sentinels \cup e.is, gid |-> e.gid]

\* &TileDef{Nil: true}: every other field keeps its zero value
NilTileDef ==
    [Nil |-> TRUE, ID |-> Zero32, GlobalID |-> Zero32, TileSet |-> 0, Tile |-> 0,
     HorizontallyFlipped |-> FALSE, VerticallyFlipped |-> FALSE,
     DiagonallyFlipped |-> FALSE]

HasTiles(t) == ~t.Tiles.nil

\* Tiles.WithID: the first tile with that id, nil if none
RECURSIVE WithIDFrom(_, _, _)
WithIDFrom(tl, id, i) ==
    IF i > Len(tl) THEN 0
    ELSE IF tl[i].TileID = id THEN i
    ELSE WithIDFrom(tl, id, i + 1)

WithID(tl, id) == WithIDFrom(tl, id, 1)

(***************************************************************************)
(* decodeTileDefs.  The scan of the tilesets for one bare ID: ts is the    *)
(* candidate so far (0: none), i the next tileset to look at; the scan     *)
(* breaks at the first tileset that starts above the ID.                   *)
(***************************************************************************)
\* mutant: the scan also breaks at a tileset that starts at the ID
RECURSIVE ScanTilesetsBreakAtEqual(_, _, _, _)
ScanTilesetsBreakAtEqual(tss, bid, i, ts) ==
    IF i > Len(tss) THEN ts
    ELSE IF ~Less32(tss[i].FirstGlobalID, bid) THEN ts
    ELSE ScanTilesetsBreakAtEqual(tss, bid, i + 1, i)

\* mutant: a tileset owns only the IDs below FirstGlobalID + TileCount
RECURSIVE ScanTilesetsWithinTileCount(_, _, _, _)
ScanTilesetsWithinTileCount(tss, bid, i, ts) ==
    IF i > Len(tss) THEN ts
    ELSE IF Less32(bid, tss[i].FirstGlobalID) THEN ts
    ELSE IF Less32(Sub32(bid, tss[i].FirstGlobalID), tss[i].TileCount)
    THEN ScanTilesetsWithinTileCount(tss, bid, i + 1, i)
    ELSE ScanTilesetsWithinTileCount(tss, bid, i + 1, ts)

RECURSIVE ScanTilesets(_, _, _, _)
ScanTilesets(tss, bid, i, ts) ==
    IF i > Len(tss) THEN ts
    ELSE IF Less32(bid, tss[i].FirstGlobalID) THEN ts
    ELSE ScanTilesets(tss, bid, i + 1, i)

\* the TileDef appended for a raw GlobalID owned by tileset ts
BuildTileDef(g, ts) ==
    LET id == TileID(g, ts)
    IN  [Nil |-> FALSE, ID |-> id, GlobalID |-> g, TileSet |-> ts.Name,
         Tile |-> IF HasTiles(ts) THEN WithID(ts.Tiles.v, id) ELSE 0,
         HorizontallyFlipped |-> IsFlippedHorizontally(g),
         VerticallyFlipped |-> IsFlippedVertically(g),
         DiagonallyFlipped |-> IsFlippedDiagonally(g)]

\* mutant: a cell no tileset owns is skipped and the loop goes on
RECURSIVE DecodeCellsBestEffort(_, _, _)
DecodeCellsBestEffort(l, tss, i) ==
    IF i > Len(l.TileGlobalRefs)
    THEN [l |-> [l EXCEPT !.TileGlobalRefs = <<>>], err |-> NoErr, panic |-> FALSE]
    ELSE LET g == l.TileGlobalRefs[i].GlobalID
             bid == BareID(g)
         IN  IF bid = Zero32
             THEN DecodeCellsBestEffort([l EXCEPT !.TileDefs = Append(@, NilTileDef)],
                                        tss, i + 1)
             ELSE IF tss.nil
             THEN [l |-> l, err |-> NoErr, panic |-> TRUE]
             ELSE LET k == ScanTilesets(tss.v, bid, 1, 0)
                  IN  IF k = 0
                      THEN DecodeCellsBestEffort(
                               [l EXCEPT !.TileDefs = Append(@, NilTileDef)], tss, i + 1)
                      ELSE DecodeCellsBestEffort(
                               [l EXCEPT !.TileDefs = Append(@, BuildTileDef(g, tss.v[k]))],
                               tss, i + 1)

\* mutant: an empty cell gets no TileDef
RECURSIVE DecodeCellsSkippingEmpty(_, _, _)
DecodeCellsSkippingEmpty(l, tss, i) ==
    IF i > Len(l.TileGlobalRefs)
    THEN [l |-> [l EXCEPT !.TileGlobalRefs = <<>>], err |-> NoErr, panic |-> FALSE]
    ELSE LET g == l.TileGlobalRefs[i].GlobalID
             bid == BareID(g)
         IN  IF bid = Zero32
             THEN DecodeCellsSkippingEmpty(l, tss, i + 1)
             ELSE IF tss.nil
             THEN [l |-> l, err |-> NoErr, panic |-> TRUE]
             ELSE LET k == ScanTilesets(tss.v, bid, 1, 0)
                  IN  IF k = 0
                      THEN [l |-> l, err |-> Err({"ErrNoSuitableTileset"}, g),
                            panic |-> FALSE]
                      ELSE DecodeCellsSkippingEmpty(
                               [l EXCEPT !.TileDefs = Append(@, BuildTileDef(g, tss.v[k]))],
                               tss, i + 1)

\* mutant: the raw references are not released at the end
RECURSIVE DecodeCellsKeepingRefs(_, _, _)
DecodeCellsKeepingRefs(l, tss, i) ==
    IF i > Len(l.TileGlobalRefs)
    THEN [l |-> l, err |-> NoErr, panic |-> FALSE]
    ELSE LET g == l.TileGlobalRefs[i].GlobalID
             bid == BareID(g)
         IN  IF bid = Zero32
             THEN DecodeCellsKeepingRefs([l EXCEPT !.TileDefs = Append(@, NilTileDef)],
                                         tss, i + 1)
             ELSE IF tss.nil
             THEN [l |-> l, err |-> NoErr, panic |-> TRUE]
             ELSE LET k == ScanTilesets(tss.v, bid, 1, 0)
                  IN  IF k = 0
                      THEN [l |-> l, err |-> Err({"ErrNoSuitableTileset"}, g),
                            panic |-> FALSE]
                      ELSE DecodeCellsKeepingRefs(
                               [l EXCEPT !.TileDefs = Append(@, BuildTileDef(g, tss.v[k]))],
                               tss, i + 1)

\* The loop over l.TileGlobalRefs from cell i on.  The outcome is the layer
\* as the call leaves it, the error returned, and whether the call panicked
\* (tss is a nil pointer and is dereferenced).
RECURSIVE DecodeCells(_, _, _)
DecodeCells(l, tss, i) ==
    IF i > Len(l.TileGlobalRefs)
    THEN [l |-> [l EXCEPT !.TileGlobalRefs = <<>>], err |-> NoErr, panic |-> FALSE]
    ELSE LET g == l.TileGlobalRefs[i].GlobalID
             bid == BareID(g)
         IN  IF bid = Zero32
             THEN DecodeCells([l EXCEPT !.TileDefs = Append(@, NilTileDef)], tss, i + 1)
             ELSE IF tss.nil
             THEN [l |-> l, err |-> NoErr, panic |-> TRUE]
             ELSE LET k == ScanTilesets(tss.v, bid, 1, 0)
                  IN  IF k = 0
                      THEN [l |-> l, err |-> Err({"ErrNoSuitableTileset"}, g),
                            panic |-> FALSE]
                      ELSE DecodeCells(
                               [l EXCEPT !.TileDefs = Append(@, BuildTileDef(g, tss.v[k]))],
                               tss, i + 1)

\* mutant: a successful call also drops the layer's data element
DecodeTileDefsDroppingRawData(l, tss) ==
    LET r == DecodeCells(l, tss, 1)
    IN  IF r.err.nil /\ ~r.panic THEN [r EXCEPT !.l.RawData = [nil |-> TRUE,
                                        v |-> [Encoding |-> "", Compression |-> "",
                                               RawBytes |-> <<>>]]]
        ELSE r

DecodeTileDefs(l, tss) == DecodeCells(l, tss, 1)

(***************************************************************************)
(* decodeLayerData.  RawBytes is a sequence of bytes (0..255).             *)
(***************************************************************************)
\* the white space strings.TrimSpace and bytes.TrimSpace cut (ASCII)
IsSpace(c) == c \in {9, 10, 11, 12, 13, 32}

RECURSIVE TrimLeft(_)
TrimLeft(s) ==
    IF s # <<>> /\ IsSpace(Head(s)) THEN TrimLeft(Tail(s)) ELSE s

RECURSIVE TrimRight(_)
TrimRight(s) ==
    IF s # <<>> /\ IsSpace(s[Len(s)]) THEN TrimRight(SubSeq(s, 1, Len(s) - 1)) ELSE s

TrimSpace(s) == TrimRight(TrimLeft(s))

\* strings.Split(s, ","): the pieces between the commas (byte 44), from
\* position i on, cur being the piece read so far
RECURSIVE SplitFrom(_, _, _)
SplitFrom(s, i, cur) ==
    IF i > Len(s) THEN <<cur>>
    ELSE IF s[i] = 44 THEN <<cur>> \o SplitFrom(s, i + 1, <<>>)
    ELSE SplitFrom(s, i + 1, Append(cur, s[i]))

SplitComma(s) == SplitFrom(s, 1, <<>>)

\* strconv.ParseUint(s, 10, 32) from digit i on, n being the value so far:
\* a byte that is no decimal digit is a syntax error, a value above 2^32-1 a
\* range error
RECURSIVE ParseDigits(_, _, _)
ParseDigits(s, i, n) ==
    IF i > Len(s) THEN [err |-> NoErr, n |-> n]
    ELSE IF s[i] < 48 \/ s[i] > 57
    THEN [err |-> Err({"strconv.ErrSyntax"}, Zero32), n |-> Zero32]
    ELSE LET lo == n.lo * 10 + (s[i] - 48)
             hi == n.hi * 10 + (lo \div Half)
         IN  IF hi >= Half
             THEN [err |-> Err({"strconv.ErrRange"}, Zero32), n |-> Zero32]
             ELSE ParseDigits(s, i + 1, U32(hi, lo % Half))

ParseUint(s) ==
    IF s = <<>> THEN [err |-> Err({"strconv.ErrSyntax"}, Zero32), n |-> Zero32]
    ELSE ParseDigits(s, 1, Zero32)

\* the csv branch: every piece is parsed, the first bad one ends the call
RECURSIVE DecodeCSV(_, _, _)
DecodeCSV(pieces, i, refs) ==
    IF i > Len(pieces) THEN [err |-> NoErr, refs |-> refs]
    ELSE LET r == ParseUint(TrimSpace(pieces[i]))
         IN  IF ~r.err.nil THEN [err |-> r.err, refs |-> refs]
             ELSE DecodeCSV(pieces, i + 1, Append(refs, [GlobalID |-> r.n]))

\* encoding/base64, StdEncoding: the 6-bit value of a character, -1 if none
B64Value(c) ==
    IF c >= 65 /\ c <= 90 THEN c - 65
    ELSE IF c >= 97 /\ c <= 122 THEN c - 71
    ELSE IF c >= 48 /\ c <= 57 THEN c + 4
    ELSE IF c = 43 THEN 62
    ELSE IF c = 47 THEN 63
    ELSE -1

\* base64.NewDecoder drops \r and \n before decoding
RECURSIVE DropNewlines(_)
DropNewlines(s) ==
    IF s = <<>> THEN <<>>
    ELSE IF Head(s) \in {10, 13} THEN DropNewlines(Tail(s))
    ELSE <<Head(s)>> \o DropNewlines(Tail(s))

\* the bytes of the quanta of four characters from position i on; ok is
\* FALSE when the input is corrupt or cut short (the reader then fails)
RECURSIVE B64Quanta(_, _, _)
B64Quanta(s, i, out) ==
    IF i > Len(s) THEN [ok |-> TRUE, bytes |-> out]
    ELSE IF i + 3 > Len(s) THEN [ok |-> FALSE, bytes |-> out]
    ELSE LET a == B64Value(s[i])
             b == B64Value(s[i + 1])
             c == B64Value(s[i + 2])
             d == B64Value(s[i + 3])
             last == i + 3 = Len(s)
         IN  IF a < 0 \/ b < 0 THEN [ok |-> FALSE, bytes |-> out]
             ELSE IF s[i + 2] = 61 /\ s[i + 3] = 61 /\ last
             THEN [ok |-> TRUE, bytes |-> Append(out, a * 4 + b \div 16)]
             ELSE IF c < 0 THEN [ok |-> FALSE, bytes |-> out]
             ELSE IF s[i + 3] = 61 /\ last
             THEN [ok |-> TRUE,
                   bytes |-> out \o <<a * 4 + b \div 16, (b % 16) * 16 + c \div 4>>]
             ELSE IF d < 0 THEN [ok |-> FALSE, bytes |-> out]
             ELSE B64Quanta(s, i + 4,
                      out \o <<a * 4 + b \div 16, (b % 16) * 16 + c \div 4,
                               (c % 4) * 64 + d>>)

Base64Decode(s) == B64Quanta(DropNewlines(s), 1, <<>>)

\* The decompressors are libraries outside the repository.  A compressed
\* stream is modelled as the magic byte of its framing followed by the
\* stored bytes: the reader of a framing fails on any other stream.
Magic(compression) ==
    CASE compression = "zlib" -> 120
      [] compression = "gzip" -> 31
      [] compression = "zstd" -> 40
      [] OTHER -> -1

Inflate(compression, bytes) ==
    IF bytes # <<>> /\ bytes[1] = Magic(compression)
    THEN [ok |-> TRUE, bytes |-> Tail(bytes)]
    ELSE [ok |-> FALSE, bytes |-> <<>>]

\* mutant: a trailing partial word is dropped without an error
RECURSIVE ReadUint32sDroppingTail(_, _, _)
ReadUint32sDroppingTail(b, i, refs) ==
    IF i + 3 > Len(b) THEN [err |-> NoErr, refs |-> refs]
    ELSE ReadUint32sDroppingTail(b, i + 4,
             Append(refs, [GlobalID |-> U32(b[i + 2] + 256 * b[i + 3],
                                           b[i] + 256 * b[i + 1])]))

\* the loop of binary.Read(r, binary.LittleEndian, &nextInt) from byte i on:
\* io.EOF at a boundary ends it, a trailing partial word is an error
RECURSIVE ReadUint32s(_, _, _)
ReadUint32s(b, i, refs) ==
    IF i > Len(b) THEN [err |-> NoErr, refs |-> refs]
    ELSE IF i + 3 > Len(b)
    THEN [err |-> Err({"io.ErrUnexpectedEOF"}, Zero32), refs |-> refs]
    ELSE ReadUint32s(b, i + 4,
             Append(refs, [GlobalID |-> U32(b[i + 2] + 256 * b[i + 3],
                                           b[i] + 256 * b[i + 1])]))

\* mutant: a compression tag that is not known is read as no compression
DecodeBase64AnyCompression(data, refs) ==
    LET b == Base64Decode(TrimSpace(data.RawBytes))
        plain == IF data.Compression \notin {"zlib", "gzip", "zstd"} THEN b
                 ELSE IF ~b.ok THEN [ok |-> FALSE, bytes |-> <<>>]
                 ELSE Inflate(data.Compression, b.bytes)
        r == ReadUint32s(plain.bytes, 1, refs)
    IN  IF ~r.err.nil THEN r
        ELSE IF ~plain.ok THEN [err |-> Err({"io"}, Zero32), refs |-> r.refs]
        ELSE r

\* the base64 branch
DecodeBase64(data, refs) ==
    LET b == Base64Decode(TrimSpace(data.RawBytes))
        plain == IF data.Compression = "" THEN b
                 ELSE IF ~b.ok THEN [ok |-> FALSE, bytes |-> <<>>]
                 ELSE Inflate(data.Compression, b.bytes)
    IN  IF data.Compression \notin {"zlib", "gzip", "zstd", ""}
        THEN [err |-> Err({"ErrUnsupportedCompression"}, Zero32), refs |-> refs]
        ELSE LET r == ReadUint32s(plain.bytes, 1, refs)
             IN  IF ~r.err.nil THEN r
                 ELSE IF ~plain.ok
                 THEN [err |-> Err({"io"}, Zero32), refs |-> r.refs]
                 ELSE r

\* decodeLayerData(l): the layer as the call leaves it, the error, and
\* whether the call panicked (l.RawData is nil: the layer has no data element)
DecodeLayerData(l) ==
    IF l.RawData.nil THEN [l |-> l, err |-> NoErr, panic |-> TRUE]
    ELSE LET data == l.RawData.v
             r == CASE data.Encoding = "base64" -> DecodeBase64(data, l.TileGlobalRefs)
                    [] data.Encoding = "csv" ->
                           DecodeCSV(SplitComma(data.RawBytes), 1, l.TileGlobalRefs)
                    [] data.Encoding = "" -> [err |-> NoErr, refs |-> l.TileGlobalRefs]
                    [] OTHER -> [err |-> Err({"ErrUnsupportedEncoding"}, Zero32),
                                 refs |-> l.TileGlobalRefs]
         IN  [l |-> [l EXCEPT !.TileGlobalRefs = r.refs], err |-> r.err, panic |-> FALSE]

(***************************************************************************)
(* Map.UnmarshalXML and decodeGroupTileDefs.  Tile layers and groups live  *)
(* on the heap (layers, groups) and are referred to by their position in   *)
(* it.  The walk visits the map's own tile layers, then for every group    *)
(* its tile layers followed by its subgroups.                              *)
(***************************************************************************)
RECURSIVE GroupWalk(_, _)
RECURSIVE GroupsFrom(_, _, _)
\* decodeGroupTileDefs(gl): the layers it hands to decodeTileDefs, in order
GroupWalk(heap, gl) == IF gl.nil THEN <<>> ELSE GroupsFrom(heap, gl.v, 1)

\* mutant: the subgroups of a group are not walked
RECURSIVE GroupsFromNoSubgroups(_, _, _)
GroupsFromNoSubgroups(heap, gs, i) ==
    IF i > Len(gs) THEN <<>>
    ELSE LET g == heap[gs[i]]
         IN  (IF g.TileLayers.nil THEN <<>> ELSE g.TileLayers.v)
                 \o GroupsFromNoSubgroups(heap, gs, i + 1)

\* mutant: the subgroups of a group are walked before its own tile layers
RECURSIVE GroupsFromSubgroupsFirst(_, _, _)
GroupsFromSubgroupsFirst(heap, gs, i) ==
    IF i > Len(gs) THEN <<>>
    ELSE LET g == heap[gs[i]]
         IN  (IF g.Groups.nil THEN <<>> ELSE GroupsFromSubgroupsFirst(heap, g.Groups.v, 1))
                 \o (IF g.TileLayers.nil THEN <<>> ELSE g.TileLayers.v)
                 \o GroupsFromSubgroupsFirst(heap, gs, i + 1)

\* the loop over *gl from its i-th group on
GroupsFrom(heap, gs, i) ==
    IF i > Len(gs) THEN <<>>
    ELSE LET g == heap[gs[i]]
         IN  (IF g.TileLayers.nil THEN <<>> ELSE g.TileLayers.v)
                 \o GroupWalk(heap, g.Groups)
                 \o GroupsFrom(heap, gs, i + 1)

\* the layers Map.UnmarshalXML resolves, in order
MapWalk(t, heap) ==
    (IF t.TileLayers.nil THEN <<>> ELSE t.TileLayers.v) \o GroupWalk(heap, t.Groups)

\* sort.Sort(byFirstGlobalID(tss)): a permutation of tss in which no tileset
\* comes before one with a smaller FirstGlobalID (the sort is not stable)
IsSortedByFirstGlobalID(tss) ==
    \A i \in 1..Len(tss) - 1 : ~Less32(tss[i + 1].FirstGlobalID, tss[i].FirstGlobalID)

\* mutant: the tilesets are left in document order
SortByFirstGlobalIDNotSorting(tss) == {tss}

SortByFirstGlobalID(tss) ==
    {[i \in 1..Len(tss) |-> tss[p[i]]] :
        p \in {q \in [1..Len(tss) -> 1..Len(tss)] :
                 /\ \A i, j \in 1..Len(tss) : i # j => q[i] # q[j]
                 /\ IsSortedByFirstGlobalID([i \in 1..Len(tss) |-> tss[q[i]]])}}

(***************************************************************************)
(* The accessors of a tile layer.                                          *)
(***************************************************************************)
NilTileDefPtr == [nil |-> TRUE, v |-> NilTileDef]

\* (l *TileLayer) GetTileDefAtIndex(index): indexing TileDefs beyond its
\* length panics
TileDefAtIndex(l, index) ==
    IF index < 0 \/ index >= l.Width * l.Height
    THEN [td |-> NilTileDefPtr, err |-> Err({"ErrTileDefOutOfBounds"}, Zero32),
          panic |-> FALSE]
    ELSE IF index >= Len(l.TileDefs)
    THEN [td |-> NilTileDefPtr, err |-> NoErr, panic |-> TRUE]
    ELSE [td |-> [nil |-> FALSE, v |-> l.TileDefs[index + 1]], err |-> NoErr,
          panic |-> FALSE]

\* (l *TileLayer) GetTileDefAtPosition(row, col)
TileDefAtPosition(l, row, col) ==
    LET r == TileDefAtIndex(l, (row * l.Width) + col)
    IN  IF r.panic THEN r
        ELSE IF ~r.err.nil
        THEN [td |-> NilTileDefPtr, err |-> Err({"ErrTileDefOutOfBounds"}, Zero32),
              panic |-> FALSE]
        ELSE [td |-> r.td, err |-> NoErr, panic |-> FALSE]

(***************************************************************************)
(* Input documents.  A map file is given by what the parser finds in it:   *)
(* its tileset elements in document order, its layer elements (Width,      *)
(* Height, data element) and, for each layer and group, the group that     *)
(* holds it (0: the map itself).  Siblings keep their order.               *)
(***************************************************************************)
MaxLayers == 2

MaxGroups == 2

MaxCells == 4

MaxRefs == 2

MaxTilesets == 3

FirstGIDs == {1, 10, 50}

FlagSets == SUBSET {TileFlippedHorizontally, TileFlippedVertically, TileFlippedDiagonally}

RECURSIVE OrAll(_)
OrAll(S) ==
    IF S = {} THEN Zero32
    ELSE LET x == CHOOSE y \in S : TRUE IN Or32(x, OrAll(S \ {x}))

\* the raw GlobalID with bare ID n and the flags of F
Gid(F, n) == Or32(OrAll(F), ToU32(n))

\* the largest bare ID, 2^29 - 1
MaxBare == U32(8191, 65535)

\* the explicit tiles a tileset of the test documents declares
TilesOf(f) ==
    CASE f = 1 -> PtrTo(<<[TileID |-> ToU32(0)], [TileID |-> ToU32(8)]>>)
      [] f = 10 -> PtrTo(<<[TileID |-> ToU32(39)]>>)
      [] OTHER -> NilPtr

\* the tilecount attribute a tileset of the test documents declares: the
\* one starting at 1 has tiles 1..9, at 10 tiles 10..49, at 50 tiles 50..53
TileCountOf(f) ==
    CASE f = 1 -> ToU32(9)
      [] f = 10 -> ToU32(40)
      [] OTHER -> ToU32(4)

\* the tileset elements with the given firstgid attributes, in that order
TilesetsOf(fs) ==
    [i \in 1..Len(fs) |->
        [Name |-> i, FirstGlobalID |-> ToU32(fs[i]), TileCount |-> TileCountOf(fs[i]),
         Tiles |-> TilesOf(fs[i])]]

SeqsUpTo(S, n) == UNION {[1..k -> S] : k \in 0..n}

\* decimal text of a uint32
RECURSIVE Digits(_)
Digits(n) ==
    IF n = Zero32 THEN <<>>
    ELSE LET r == (n.hi % 10) * Half + n.lo
         IN  Append(Digits(U32(n.hi \div 10, r \div 10)), 48 + (r % 10))

FormatUint(n) == IF n = Zero32 THEN <<48>> ELSE Digits(n)

\* the text of a csv data element: the cells separated by commas, a line
\* break before and after
RECURSIVE JoinCells(_, _)
JoinCells(cells, i) ==
    IF i > Len(cells) THEN <<>>
    ELSE (IF i > 1 THEN <<44>> ELSE <<>>) \o FormatUint(cells[i]) \o JoinCells(cells, i + 1)

CSVText(cells) == <<10>> \o JoinCells(cells, 1) \o <<10>>

\* the little-endian bytes of the cells
RECURSIVE CellBytes(_, _)
CellBytes(cells, i) ==
    IF i > Len(cells) THEN <<>>
    ELSE <<cells[i].lo % 256, cells[i].lo \div 256, cells[i].hi % 256,
           cells[i].hi \div 256>> \o CellBytes(cells, i + 1)

B64Char(v) ==
    IF v < 26 THEN v + 65
    ELSE IF v < 52 THEN v + 71
    ELSE IF v < 62 THEN v - 4
    ELSE IF v = 62 THEN 43
    ELSE 47

\* standard Base64 text of a byte sequence, padded
RECURSIVE Base64Text(_, _)
Base64Text(b, i) ==
    IF i > Len(b) THEN <<>>
    ELSE IF i = Len(b)
    THEN <<B64Char(b[i] \div 4), B64Char((b[i] % 4) * 16), 61, 61>>
    ELSE IF i + 1 = Len(b)
    THEN <<B64Char(b[i] \div 4), B64Char((b[i] % 4) * 16 + b[i + 1] \div 16),
           B64Char((b[i + 1] % 16) * 4), 61>>
    ELSE <<B64Char(b[i] \div 4), B64Char((b[i] % 4) * 16 + b[i + 1] \div 16),
           B64Char((b[i + 1] % 16) * 4 + b[i + 2] \div 64), B64Char(b[i + 2] % 64)>>
             \o Base64Text(b, i + 3)

NilData == [nil |-> TRUE, v |-> [Encoding |-> "", Compression |-> "", RawBytes |-> <<>>]]

Data(enc, comp, bytes) ==
    [nil |-> FALSE, v |-> [Encoding |-> enc, Compression |-> comp, RawBytes |-> bytes]]

\* the data element of a layer holding the given cells, in one of the forms
\* a map file can have
Forms == {"csv", "base64", "zlib", "children", "absent", "json", "csv-bad", "zlib-bad"}

DataOf(form, cells) ==
    CASE form = "csv" -> Data("csv", "", CSVText(cells))
      [] form = "base64" -> Data("base64", "", <<10, 32>> \o Base64Text(CellBytes(cells, 1), 1) \o <<10>>)
      [] form = "zlib" -> Data("base64", "zlib", Base64Text(<<120>> \o CellBytes(cells, 1), 1))
      [] form = "children" -> Data("", "", <<>>)
      [] form = "absent" -> NilData
      [] form = "json" -> Data("json", "", CSVText(cells))
      [] form = "csv-bad" -> Data("csv", "", CSVText(cells) \o <<44, 120>>)
      [] form = "zlib-bad" -> Data("base64", "zlib", Base64Text(CellBytes(cells, 1), 1))

LayerElement(w, h, data) == [Width |-> w, Height |-> h, RawData |-> data]

\* the TileLayer the parser builds from a layer element, before its data is decoded
NewLayer(e) ==
    [Width |-> e.Width, Height |-> e.Height, RawData |-> e.RawData,
     TileGlobalRefs |-> <<>>, TileDefs |-> <<>>]

Document(path, open, read, xml, fs, ls, owner, parent) ==
    [path |-> path, open |-> open, read |-> read, xml |-> xml,
     tilesets |-> TilesetsOf(fs), layers |-> ls, layerOwner |-> owner,
     groupParent |-> parent]

\* the elements held by p, in document order, as the pointer the parser
\* leaves in the struct: nil when there is none
RECURSIVE ChildrenFrom(_, _, _)
ChildrenFrom(owner, p, i) ==
    IF i > Len(owner) THEN <<>>
    ELSE (IF owner[i] = p THEN <<i>> ELSE <<>>) \o ChildrenFrom(owner, p, i + 1)

Children(owner, p) ==
    IF ChildrenFrom(owner, p, 1) = <<>> THEN NilPtr ELSE PtrTo(ChildrenFrom(owner, p, 1))

\* documents that exercise the walk: up to MaxLayers layers of one cell in
\* up to MaxGroups groups nested in any way; cell 10 resolves and cell 5
\* does not when the only tilesets start at 10
WalkLayers ==
    {LayerElement(1, 1, DataOf("csv", <<ToU32(10)>>)),
     LayerElement(1, 1, DataOf("csv", <<ToU32(5)>>))}

WalkTilesets == {<<>>, <<10>>, <<10, 10>>}

\* the ways to nest n groups: each group is held by the map (0) or by an
\* earlier group
Nestings(n) == {p \in [1..n -> 0..n] : \A g \in 1..n : p[g] < g}

\* documents with a group that has a subgroup and is followed by a sibling
\* group, each of the three holding one layer, the layers in any order
DeepGroups == <<0, 1, 0>>

DeepOwners == {o \in [1..3 -> 1..3] : \A i, j \in 1..3 : i # j => o[i] # o[j]}

\* documents that exercise one layer: a top-level layer of any declared
\* size, any number of cells up to MaxCells and any form of data element
Dims == {1, 2}

LayerGIDs == {Zero32, ToU32(9), Gid({TileFlippedHorizontally}, 10)}

\* files that cannot be opened, read or parsed
BrokenDocuments ==
    {Document("", "ok", "ok", "ok", <<>>, <<>>, <<>>, <<>>),
     Document("map.tmx", "ENOENT", "ok", "ok", <<>>, <<>>, <<>>, <<>>),
     Document("map.tmx", "ok", "EIO", "ok", <<>>, <<>>, <<>>, <<>>),
     Document("map.tmx", "ok", "ok", "malformed", <<>>, <<>>, <<>>, <<>>)}

(***************************************************************************)
(* State.                                                                  *)
(***************************************************************************)
VARIABLES
    pc,         \* where New is: "New", "Unmarshal", "Sort", "Walk", "done", "panic"
    doc,        \* the file New is called for
    m,          \* the Map being decoded
    layers,     \* the heap of TileLayers
    groups,     \* the heap of Groups
    cur,        \* how many layers of the walk decodeTileDefs has resolved
    ret,        \* what New returned: whether the *Map is non-nil, and the error
    acc,        \* the last accessor call on a layer of the returned map
    unit,       \* a direct call of decodeTileDefs: its arguments and outcome
    ResourcePath,   \* the package variable ResourcePath
    ld,         \* a direct call of decodeLayerData: its layer and outcome
    tsu,        \* a call of Tileset.UnmarshalXML: the element, the file, the outcome
    obu,        \* a call of Object.UnmarshalXML: the element, the file, the outcome
    gor         \* the goroutines that call New at the same time

\* the calls made outside New
calls == <<ld, tsu, obu, gor>>

vars == <<pc, doc, m, layers, groups, cur, ret, acc, unit, ResourcePath, calls>>

ZeroMap == [Tilesets |-> NilPtr, TileLayers |-> NilPtr, Groups |-> NilPtr]

NoRet == [m |-> FALSE, err |-> NoErr]

NoAcc ==
    [op |-> "none", l |-> 0, index |-> 0, row |-> 0, col |-> 0,
     td |-> NilTileDefPtr, err |-> NoErr, panic |-> FALSE]

NoUnit ==
    [in |-> NewLayer(LayerElement(0, 0, NilData)), tss |-> NilPtr,
     out |-> [l |-> NewLayer(LayerElement(0, 0, NilData)), err |-> NoErr,
              panic |-> FALSE],
     done |-> FALSE,
     again |-> [l |-> NewLayer(LayerElement(0, 0, NilData)), err |-> NoErr,
                panic |-> FALSE],
     redone |-> FALSE]

NoLd == [in |-> NewLayer(LayerElement(0, 0, NilData)), payload |-> "", cells |-> <<>>,
         bytes |-> <<>>,
         out |-> [l |-> NewLayer(LayerElement(0, 0, NilData)), err |-> NoErr,
                  panic |-> FALSE],
         done |-> FALSE]

NoCalls == ld = NoLd /\ tsu = <<>> /\ obu = <<>> /\ gor = <<>>

\* filepath.Dir of the paths the model uses
Dir(path) ==
    CASE path = "a/map.tmx" -> "a"
      [] path = "b/map.tmx" -> "b"
      [] OTHER -> "."

Init ==
    /\ pc = "New"
    /\ \/ \E fs \in WalkTilesets, ls \in SeqsUpTo(WalkLayers, MaxLayers),
            n \in 0..MaxGroups :
            \E parent \in Nestings(n), owner \in [1..Len(ls) -> 0..n] :
              doc = Document("map.tmx", "ok", "ok", "ok", fs, ls, owner, parent)
       \/ \E fs \in WalkTilesets, ls \in [1..3 -> WalkLayers], owner \in DeepOwners :
              doc = Document("map.tmx", "ok", "ok", "ok", fs, ls, owner, DeepGroups)
       \/ \E w \in Dims, h \in Dims, form \in Forms,
            cells \in SeqsUpTo(LayerGIDs, MaxCells) :
              doc = Document("map.tmx", "ok", "ok", "ok", <<50, 10>>,
                             <<LayerElement(w, h, DataOf(form, cells))>>, <<0>>, <<>>)
       \/ doc \in BrokenDocuments
    /\ m = ZeroMap
    /\ layers = <<>>
    /\ groups = <<>>
    /\ cur = 0
    /\ ret = NoRet
    /\ acc = NoAcc
    /\ unit = NoUnit
    /\ ResourcePath = ""
    /\ NoCalls

(***************************************************************************)
(* New(path), up to the call of xml.Unmarshal.                             *)
(***************************************************************************)
NewOpen ==
    /\ pc = "New"
    /\ IF doc.path = ""
       THEN /\ ret' = [m |-> FALSE, err |-> Err({}, Zero32)]
            /\ pc' = "done"
       ELSE IF doc.open # "ok"
       THEN /\ ret' = [m |-> FALSE, err |-> Err({"os.Open"}, Zero32)]
            /\ pc' = "done"
       ELSE IF doc.read # "ok"
       THEN /\ ret' = [m |-> FALSE, err |-> Err({"io.ReadAll"}, Zero32)]
            /\ pc' = "done"
       ELSE /\ ret' = ret
            /\ pc' = "Unmarshal"
    /\ ResourcePath' = IF pc' = "Unmarshal" THEN Dir(doc.path) ELSE ResourcePath
    /\ UNCHANGED <<doc, m, layers, groups, cur, acc, unit, calls>>

(***************************************************************************)
(* Map.UnmarshalXML: xd.DecodeElement(&tmp, &start) builds the structs and *)
(* runs TileLayer.UnmarshalXML, hence decodeLayerData, on every layer      *)
(* element; the first layer whose data fails ends the decode.              *)
(***************************************************************************)
DecodeElement ==
    /\ pc = "Unmarshal"
    /\ LET n == Len(doc.layers)
           decoded == [i \in 1..n |-> DecodeLayerData(NewLayer(doc.layers[i]))]
           bad == {i \in 1..n : decoded[i].panic \/ ~decoded[i].err.nil}
       IN  IF doc.xml # "ok"
           THEN /\ ret' = [m |-> FALSE,
                           err |-> Err({"ErrDecodingTilemap", "xml"}, Zero32)]
                /\ pc' = "done"
                /\ UNCHANGED <<m, layers, groups>>
           ELSE IF bad # {}
           THEN /\ \E i \in bad :
                     IF decoded[i].panic
                     THEN pc' = "panic" /\ ret' = ret
                     ELSE /\ pc' = "done"
                          /\ ret' = [m |-> FALSE,
                                     err |-> Wrap({"ErrDecodingTilemap",
                                                   "ErrDecodingTileLayer",
                                                   "ErrDecodingTileLayerData"},
                                                  decoded[i].err)]
                /\ UNCHANGED <<m, layers, groups>>
           ELSE /\ m' = [Tilesets |-> IF doc.tilesets = <<>> THEN NilPtr
                                      ELSE PtrTo(doc.tilesets),
                         TileLayers |-> Children(doc.layerOwner, 0),
                         Groups |-> Children(doc.groupParent, 0)]
                /\ layers' = [i \in 1..n |-> decoded[i].l]
                /\ groups' = [g \in 1..Len(doc.groupParent) |->
                                 [TileLayers |-> Children(doc.layerOwner, g),
                                  Groups |-> Children(doc.groupParent, g)]]
                /\ pc' = "Sort"
                /\ ret' = ret
    /\ UNCHANGED <<doc, cur, acc, unit, ResourcePath, calls>>

\* sort.Sort(byFirstGlobalID(*t.Tilesets)): a nil t.Tilesets is dereferenced
SortTilesets ==
    /\ pc = "Sort"
    /\ IF m.Tilesets.nil
       THEN /\ pc' = "panic"
            /\ m' = m
       ELSE /\ pc' = "Walk"
            /\ \E s \in SortByFirstGlobalID(m.Tilesets.v) :
                   m' = [m EXCEPT !.Tilesets = PtrTo(s)]
    /\ UNCHANGED <<doc, layers, groups, cur, ret, acc, unit, ResourcePath, calls>>

\* mutant: the error of decodeTileDefs is dropped and the walk goes on
DecodeNextLayerDroppingError ==
    /\ pc = "Walk"
    /\ cur < Len(MapWalk(m, groups))
    /\ LET id == MapWalk(m, groups)[cur + 1]
           r == DecodeTileDefs(layers[id], m.Tilesets)
       IN  /\ layers' = [layers EXCEPT ![id] = r.l]
           /\ IF r.panic
              THEN pc' = "panic" /\ cur' = cur /\ ret' = ret
              ELSE pc' = "Walk" /\ cur' = cur + 1 /\ ret' = ret
    /\ UNCHANGED <<doc, m, groups, acc, unit, ResourcePath, calls>>

\* the next call of decodeTileDefs of the walk; its error ends
\* Map.UnmarshalXML, and New returns nil and the error
DecodeNextLayer ==
    /\ pc = "Walk"
    /\ cur < Len(MapWalk(m, groups))
    /\ LET id == MapWalk(m, groups)[cur + 1]
           r == DecodeTileDefs(layers[id], m.Tilesets)
       IN  /\ layers' = [layers EXCEPT ![id] = r.l]
           /\ IF r.panic
              THEN pc' = "panic" /\ cur' = cur /\ ret' = ret
              ELSE IF ~r.err.nil
              THEN /\ pc' = "done"
                   /\ cur' = cur
                   /\ ret' = [m |-> FALSE, err |-> Wrap({}, r.err)]
              ELSE pc' = "Walk" /\ cur' = cur + 1 /\ ret' = ret
    /\ UNCHANGED <<doc, m, groups, acc, unit, ResourcePath, calls>>

\* the walk is over: Map.UnmarshalXML returns nil, New returns &m
Return ==
    /\ pc = "Walk"
    /\ cur = Len(MapWalk(m, groups))
    /\ pc' = "done"
    /\ ret' = [m |-> TRUE, err |-> NoErr]
    /\ UNCHANGED <<doc, m, layers, groups, cur, acc, unit, ResourcePath, calls>>

(***************************************************************************)
(* The caller's accessor call on a layer of the map New returned.  The     *)
(* accessors only read the layer, so a later call behaves as a first one:  *)
(* a run makes one call, with any arguments.                               *)
(***************************************************************************)
GetTileDefAtIndex ==
    /\ pc = "done"
    /\ ret.m
    /\ acc.op = "none"
    /\ \E id \in 1..Len(layers) :
         \E index \in -1..(layers[id].Width * layers[id].Height + 1) :
           LET r == TileDefAtIndex(layers[id], index)
           IN  /\ acc' = [op |-> "index", l |-> id, index |-> index, row |-> 0,
                          col |-> 0, td |-> r.td, err |-> r.err, panic |-> r.panic]
               /\ pc' = IF r.panic THEN "panic" ELSE "done"
    /\ UNCHANGED <<doc, m, layers, groups, cur, ret, unit, ResourcePath, calls>>

GetTileDefAtPosition ==
    /\ pc = "done"
    /\ ret.m
    /\ acc.op = "none"
    /\ \E id \in 1..Len(layers) :
         \E row \in -1..layers[id].Height, col \in -1..layers[id].Width :
           LET r == TileDefAtPosition(layers[id], row, col)
           IN  /\ acc' = [op |-> "position", l |-> id, index |-> 0, row |-> row,
                          col |-> col, td |-> r.td, err |-> r.err, panic |-> r.panic]
               /\ pc' = IF r.panic THEN "panic" ELSE "done"
    /\ UNCHANGED <<doc, m, layers, groups, cur, ret, unit, ResourcePath, calls>>

Next ==
    \/ NewOpen
    \/ DecodeElement
    \/ SortTilesets
    \/ DecodeNextLayer
    \/ Return
    \/ GetTileDefAtIndex
    \/ GetTileDefAtPosition

Spec == Init /\ [][Next]_vars

(***************************************************************************)
(* decodeTileDefs called directly, on any layer of up to MaxRefs raw       *)
(* references and any tileset collection sorted by FirstGlobalID: nil,     *)
(* empty, or up to MaxTilesets tilesets (equal FirstGlobalIDs included).   *)
(***************************************************************************)
UnitBares == {ToU32(0), ToU32(1), ToU32(9), ToU32(49), ToU32(50), MaxBare}

UnitGIDs == {Or32(OrAll(F), b) : F \in FlagSets, b \in UnitBares}

\* the cells around the one looked at
UnitFillers == {Zero32, ToU32(9)}

UnitTilesets ==
    {NilPtr, PtrTo(<<>>)} \cup
    {PtrTo(TilesetsOf(fs)) :
        fs \in {f \in SeqsUpTo(FirstGIDs, MaxTilesets) :
                  f # <<>> /\ \A i \in 1..Len(f) - 1 : f[i] <= f[i + 1]}}

UnitInit ==
    /\ pc = "unit"
    /\ doc = Document("", "ok", "ok", "ok", <<>>, <<>>, <<>>, <<>>)
    /\ m = ZeroMap
    /\ layers = <<>>
    /\ groups = <<>>
    /\ cur = 0
    /\ ret = NoRet
    /\ acc = NoAcc
    /\ ResourcePath = ""
    /\ NoCalls
    /\ \E g \in UnitGIDs, tss \in UnitTilesets,
         pre \in SeqsUpTo(UnitFillers, MaxRefs - 1),
         post \in SeqsUpTo(UnitFillers, MaxRefs - 1) :
         /\ Len(pre) + 1 + Len(post) <= MaxRefs
         /\ unit = [in |-> [NoUnit.in EXCEPT
                               !.TileGlobalRefs =
                                   [i \in 1..(Len(pre) + 1 + Len(post)) |->
                                       [GlobalID |-> (pre \o <<g>> \o post)[i]]]],
                    tss |-> tss, out |-> NoUnit.out, done |-> FALSE,
                    again |-> NoUnit.again, redone |-> FALSE]

CallDecodeTileDefs ==
    /\ pc = "unit"
    /\ ~unit.done
    /\ unit' = [unit EXCEPT !.out = DecodeTileDefs(unit.in, unit.tss), !.done = TRUE]
    /\ UNCHANGED <<pc, doc, m, layers, groups, cur, ret, acc, ResourcePath, calls>>

\* decodeTileDefs called once more on the layer the first call left
CallDecodeTileDefsAgain ==
    /\ pc = "unit"
    /\ unit.done
    /\ ~unit.out.panic
    /\ ~unit.redone
    /\ unit' = [unit EXCEPT !.again = DecodeTileDefs(unit.out.l, unit.tss),
                            !.redone = TRUE]
    /\ UNCHANGED <<pc, doc, m, layers, groups, cur, ret, acc, ResourcePath, calls>>

UnitNext ==
    \/ CallDecodeTileDefs
    \/ CallDecodeTileDefsAgain

SpecDecodeTileDefs == UnitInit /\ [][UnitNext]_vars

(***************************************************************************)
(* decodeLayerData called directly, on a layer whose data element has any  *)
(* encoding and compression tag and holds either csv text of up to MaxRefs *)
(* cells or the Base64 text of up to MaxStream bytes, framed for the       *)
(* compression tag when it names a known one.                              *)
(***************************************************************************)
MaxStream == 8

Encodings == {"", "csv", "base64", "json"}

Compressions == {"", "zlib", "gzip", "zstd", "lz4"}

StreamBytes == {1, 160}

\* the stream a compressor of that name writes for the bytes
Framed(compression, bytes) ==
    IF Magic(compression) >= 0 THEN <<Magic(compression)>> \o bytes ELSE bytes

LdCall(enc, comp, payload, cells, bytes, text) ==
    [in |-> NewLayer(LayerElement(0, 0, Data(enc, comp, text))),
     payload |-> payload, cells |-> cells, bytes |-> bytes,
     out |-> NoLd.out, done |-> FALSE]

LdInit ==
    /\ pc = "ld"
    /\ doc = Document("", "ok", "ok", "ok", <<>>, <<>>, <<>>, <<>>)
    /\ m = ZeroMap
    /\ layers = <<>>
    /\ groups = <<>>
    /\ cur = 0
    /\ ret = NoRet
    /\ acc = NoAcc
    /\ unit = NoUnit
    /\ ResourcePath = ""
    /\ tsu = <<>>
    /\ obu = <<>>
    /\ gor = <<>>
    /\ \E enc \in Encodings, comp \in Compressions :
         \/ \E cells \in SeqsUpTo(LayerGIDs, MaxRefs) :
              ld = LdCall(enc, comp, "text", cells, <<>>, CSVText(cells))
         \/ \E bytes \in SeqsUpTo(StreamBytes, MaxStream) :
              ld = LdCall(enc, comp, "bytes", <<>>, bytes,
                          <<10, 32>> \o Base64Text(Framed(comp, bytes), 1) \o <<10>>)

CallDecodeLayerData ==
    /\ pc = "ld"
    /\ ~ld.done
    /\ ld' = [ld EXCEPT !.out = DecodeLayerData(ld.in), !.done = TRUE]
    /\ UNCHANGED <<pc, doc, m, layers, groups, cur, ret, acc, unit, ResourcePath,
                   tsu, obu, gor>>

LdNext == CallDecodeLayerData

SpecDecodeLayerData == LdInit /\ [][LdNext]_vars

(***************************************************************************)
(* Tileset.UnmarshalXML.  A tileset element, in a map or as the root of an *)
(* external file, is given by what the parser finds in it: its firstgid    *)
(* attribute (-1: none), its source attribute, its image element (0: none) *)
(* and its tile elements (each with its image, 0: none).  A directory      *)
(* holds at most one tileset file.                                         *)
(***************************************************************************)
TilesetElement(xml, firstgid, source, image, tiles) ==
    [xml |-> xml, firstgid |-> firstgid, source |-> source, Image |-> image,
     Tiles |-> tiles]

NoFile == [exists |-> FALSE, el |-> TilesetElement("ok", -1, "", 0, NilPtr)]

File(el) == [exists |-> TRUE, el |-> el]

\* var tmp tempTileSet
ZeroTileset == [FirstGlobalID |-> Zero32, Source |-> "", Image |-> 0, Tiles |-> NilPtr]

\* filepath.Join(dir, name)
Join(dir, name) == [dir |-> dir, name |-> name]

NoPath == Join("", "")

\* the decoder filling tmp from an element: an attribute or element that is
\* not there leaves the field as it was, tile elements are appended
DecodeTilesetInto(tmp, el) ==
    [FirstGlobalID |-> IF el.firstgid >= 0 THEN ToU32(el.firstgid) ELSE tmp.FirstGlobalID,
     Source |-> IF el.source # "" THEN el.source ELSE tmp.Source,
     Image |-> IF el.Image # 0 THEN el.Image ELSE tmp.Image,
     Tiles |-> IF el.Tiles.nil THEN tmp.Tiles
               ELSE IF tmp.Tiles.nil THEN el.Tiles
               ELSE PtrTo(tmp.Tiles.v \o el.Tiles.v)]

\* mutant: the first ID the external file declares always wins
EffectiveFirstGlobalIDExternalWins(firstGlobalID, tmp) == tmp.FirstGlobalID

\* *t = (Tileset)(tmp); if firstGlobalID != 0 { t.FirstGlobalID = firstGlobalID }
EffectiveFirstGlobalID(firstGlobalID, tmp) ==
    IF firstGlobalID # Zero32 THEN firstGlobalID ELSE tmp.FirstGlobalID

\* the image of the first tile that has one, 0 if none
RECURSIVE FirstTileImage(_, _)
FirstTileImage(tiles, i) ==
    IF i > Len(tiles) THEN 0
    ELSE IF tiles[i].Image # 0 THEN tiles[i].Image
    ELSE FirstTileImage(tiles, i + 1)

\* Tileset.UnmarshalXML on element el, fs giving the file of every path and
\* rp being what ResourcePath holds when it is read: the tileset it leaves,
\* its error, and the path it opened
TilesetUnmarshalXML(el, fs, rp) ==
    LET tmp == DecodeTilesetInto(ZeroTileset, el)
        path == Join(rp, tmp.Source)
        f == fs[path.dir]
        ext == DecodeTilesetInto(tmp, f.el)
        t == [ext EXCEPT !.FirstGlobalID = EffectiveFirstGlobalID(tmp.FirstGlobalID, ext)]
        image == IF t.Tiles.nil THEN 0 ELSE FirstTileImage(t.Tiles.v, 1)
    IN  IF el.xml # "ok"
        THEN [t |-> ZeroTileset, err |-> Err({"ErrDecodingTileset", "xml"}, Zero32),
              opened |-> NoPath]
        ELSE IF tmp.Source = "" THEN [t |-> tmp, err |-> NoErr, opened |-> NoPath]
        ELSE IF ~f.exists
        THEN [t |-> tmp, err |-> Err({"os.Open"}, Zero32), opened |-> path]
        ELSE IF f.el.xml # "ok"
        THEN [t |-> tmp, err |-> Err({"ErrDecodingTileset", "xml"}, Zero32),
              opened |-> path]
        ELSE IF t.Image # 0 THEN [t |-> t, err |-> NoErr, opened |-> path]
        ELSE IF image = 0
        THEN [t |-> t, err |-> Err({"ErrDecodingTileset"}, Zero32), opened |-> path]
        ELSE [t |-> [t EXCEPT !.Image = image], err |-> NoErr, opened |-> path]

\* the file system of one call: the file under directory ".", none elsewhere
FilesAt(dir, f) == [d \in {".", "a", "b", ""} |-> IF d = dir THEN f ELSE NoFile]

TileImages == {NilPtr, PtrTo(<<[Image |-> 0]>>), PtrTo(<<[Image |-> 0], [Image |-> 3]>>)}

TsuInit ==
    /\ pc = "tsu"
    /\ doc = Document("", "ok", "ok", "ok", <<>>, <<>>, <<>>, <<>>)
    /\ m = ZeroMap
    /\ layers = <<>>
    /\ groups = <<>>
    /\ cur = 0
    /\ ret = NoRet
    /\ acc = NoAcc
    /\ unit = NoUnit
    /\ ResourcePath = "."
    /\ ld = NoLd
    /\ obu = <<>>
    /\ gor = <<>>
    /\ \E xml \in {"ok", "malformed"}, firstgid \in {-1, 0, 1, 5},
          source \in {"", "base.tsx"}, image \in {0, 1} :
         \E exists \in BOOLEAN, fxml \in {"ok", "malformed"},
            ffirstgid \in {-1, 0, 1, 7}, fimage \in {0, 2}, ftiles \in TileImages :
           tsu = [el |-> TilesetElement(xml, firstgid, source, image, NilPtr),
                  file |-> IF exists
                           THEN File(TilesetElement(fxml, ffirstgid, "", fimage, ftiles))
                           ELSE NoFile,
                  out |-> [t |-> ZeroTileset, err |-> NoErr, opened |-> NoPath],
                  done |-> FALSE]

CallTilesetUnmarshalXML ==
    /\ pc = "tsu"
    /\ ~tsu.done
    /\ tsu' = [tsu EXCEPT
                 !.out = TilesetUnmarshalXML(tsu.el, FilesAt(".", tsu.file), ResourcePath),
                 !.done = TRUE]
    /\ UNCHANGED <<pc, doc, m, layers, groups, cur, ret, acc, unit, ResourcePath,
                   ld, obu, gor>>

TsuNext == CallTilesetUnmarshalXML

SpecTilesetUnmarshalXML == TsuInit /\ [][TsuNext]_vars

(***************************************************************************)
(* Object.UnmarshalXML.  An object is given by the value of each of its    *)
(* fields: 0 is the field's zero value ("", 0, false or nil), 1 a value    *)
(* the object element declares and 2 a value the template's object         *)
(* declares.  A directory holds at most one template file.                 *)
(***************************************************************************)
ObjectFields ==
    {"Name", "Type", "X", "Y", "Width", "Height", "Rotation", "Visible", "GlobalID",
     "Properties", "Image", "Polygon", "Polyline", "Text", "Ellipse", "Point"}

\* the object whose fields in S hold v, the others their zero value
ObjectWith(S, v) == [f \in ObjectFields |-> IF f \in S THEN v ELSE 0]

ObjectElement(xml, template, o) == [xml |-> xml, template |-> template, o |-> o]

NoTemplate == [exists |-> FALSE, xml |-> "ok", o |-> ObjectWith({}, 0)]

\* the assignments of lines 286-333, src being the struct they read from:
\* Polyline is guarded by Polygon
MergeObject(o, src) ==
    [f \in ObjectFields |->
        IF f = "Polyline"
        THEN (IF o["Polygon"] = 0 /\ src["Polygon"] = 0 THEN src[f] ELSE o[f])
        ELSE IF o[f] = 0 THEN src[f] ELSE o[f]]

\* Object.UnmarshalXML on element el: the object it leaves, its error and
\* the path it opened.  The template is decoded into the local variable
\* template; the assignments that follow read tmp, the object's own decoding.
ObjectUnmarshalXML(el, fs, rp) ==
    LET tmp == el.o
        path == Join(rp, el.template)
        f == fs[path.dir]
        template == f.o
    IN  IF el.xml # "ok"
        THEN [o |-> ObjectWith({}, 0), err |-> Err({"ErrDecodingTileLayer", "xml"}, Zero32),
              opened |-> NoPath]
        ELSE IF el.template = "" THEN [o |-> tmp, err |-> NoErr, opened |-> NoPath]
        ELSE IF ~f.exists
        THEN [o |-> tmp, err |-> Err({"os.Open"}, Zero32), opened |-> path]
        ELSE IF f.xml # "ok"
        THEN [o |-> tmp, err |-> Err({"ErrDecodingTemplate", "xml"}, Zero32),
              opened |-> path]
        ELSE [o |-> MergeObject(tmp, tmp), err |-> NoErr, opened |-> path]

\* the sets of fields an element declares: none, one, all but one, all
FieldSets(f) == {{}, {f}, ObjectFields \ {f}, ObjectFields}

ObuInit ==
    /\ pc = "obu"
    /\ doc = Document("", "ok", "ok", "ok", <<>>, <<>>, <<>>, <<>>)
    /\ m = ZeroMap
    /\ layers = <<>>
    /\ groups = <<>>
    /\ cur = 0
    /\ ret = NoRet
    /\ acc = NoAcc
    /\ unit = NoUnit
    /\ ResourcePath = "."
    /\ ld = NoLd
    /\ tsu = <<>>
    /\ gor = <<>>
    /\ \E xml \in {"ok", "malformed"}, template \in {"", "default.tx"},
          f \in ObjectFields, exists \in BOOLEAN, txml \in {"ok", "malformed"} :
         \E S \in FieldSets(f), T \in FieldSets(f) :
           obu = [el |-> ObjectElement(xml, template, ObjectWith(S, 1)),
                  file |-> IF exists
                           THEN [exists |-> TRUE, xml |-> txml, o |-> ObjectWith(T, 2)]
                           ELSE NoTemplate,
                  out |-> [o |-> ObjectWith({}, 0), err |-> NoErr, opened |-> NoPath],
                  done |-> FALSE]

CallObjectUnmarshalXML ==
    /\ pc = "obu"
    /\ ~obu.done
    /\ obu' = [obu EXCEPT
                 !.out = ObjectUnmarshalXML(
                             obu.el,
                             [d \in {".", "a", "b", ""} |->
                                 IF d = "." THEN obu.file ELSE NoTemplate],
                             ResourcePath),
                 !.done = TRUE]
    /\ UNCHANGED <<pc, doc, m, layers, groups, cur, ret, acc, unit, ResourcePath,
                   ld, tsu, gor>>

ObuNext == CallObjectUnmarshalXML

SpecObjectUnmarshalXML == ObuInit /\ [][ObuNext]_vars

(***************************************************************************)
(* New called by two goroutines at the same time, each on a map with one   *)
(* tileset declared by source reference and one object with a template     *)
(* reference.  ResourcePath is a package variable that every call writes   *)
(* and reads without synchronisation.  A string is two words, its data     *)
(* pointer and its length, which a racing reader can see half written:     *)
(* header holds the two words, and ResourcePath is the string they make.   *)
(***************************************************************************)
Goroutines == {1, 2}

MapPaths == {"a/map.tmx", "b/map.tmx"}

Dirs == {".", "a", "b", "", "torn"}

\* the string a header denotes: the words of two different strings make garbage
StringOf(header) == IF header.ptr = header.len THEN header.ptr ELSE "torn"

\* every map directory holds base.tsx and default.tx
TilesetFiles ==
    [d \in Dirs |-> IF d \in {"a", "b"}
                    THEN File(TilesetElement("ok", -1, "", 2, NilPtr))
                    ELSE NoFile]

TemplateFiles ==
    [d \in Dirs |-> IF d \in {"a", "b"}
                    THEN [exists |-> TRUE, xml |-> "ok", o |-> ObjectWith({"Name"}, 2)]
                    ELSE NoTemplate]

GoInit ==
    /\ pc = "go"
    /\ doc = Document("", "ok", "ok", "ok", <<>>, <<>>, <<>>, <<>>)
    /\ m = ZeroMap
    /\ layers = <<>>
    /\ groups = <<>>
    /\ cur = 0
    /\ ret = NoRet
    /\ acc = NoAcc
    /\ unit = NoUnit
    /\ ResourcePath = ""
    /\ ld = NoLd
    /\ tsu = <<>>
    /\ obu = <<>>
    /\ \E paths \in [Goroutines -> MapPaths] :
         gor = [header |-> [ptr |-> "", len |-> ""],
                proc |-> [g \in Goroutines |->
                            [pc |-> "New", path |-> paths[g], stored |-> {},
                             opened |-> <<>>, err |-> NoErr]]]

\* New up to line 140: the map file is opened and read
GoNew(g) ==
    /\ pc = "go"
    /\ gor.proc[g].pc = "New"
    /\ gor' = [gor EXCEPT !.proc[g].pc = "Store"]
    /\ UNCHANGED <<pc, doc, m, layers, groups, cur, ret, acc, unit, ResourcePath,
                   ld, tsu, obu>>

\* ResourcePath = filepath.Dir(path): one word of the string is stored
GoStore(g) ==
    /\ pc = "go"
    /\ gor.proc[g].pc = "Store"
    /\ \E w \in {"ptr", "len"} \ gor.proc[g].stored :
         LET header == IF w = "ptr"
                       THEN [gor.header EXCEPT !.ptr = Dir(gor.proc[g].path)]
                       ELSE [gor.header EXCEPT !.len = Dir(gor.proc[g].path)]
             stored == gor.proc[g].stored \cup {w}
         IN  /\ gor' = [gor EXCEPT !.header = header,
                                   !.proc[g].stored = stored,
                                   !.proc[g].pc = IF stored = {"ptr", "len"}
                                                  THEN "Tileset" ELSE "Store"]
             /\ ResourcePath' = StringOf(header)
    /\ UNCHANGED <<pc, doc, m, layers, groups, cur, ret, acc, unit, ld, tsu, obu>>

\* xml.Unmarshal reaches the tileset element: Tileset.UnmarshalXML
GoTileset(g) ==
    /\ pc = "go"
    /\ gor.proc[g].pc = "Tileset"
    /\ LET r == TilesetUnmarshalXML(TilesetElement("ok", 1, "base.tsx", 0, NilPtr),
                                    TilesetFiles, ResourcePath)
       IN  gor' = [gor EXCEPT
                     !.proc[g].opened = Append(@, r.opened),
                     !.proc[g].err = r.err,
                     !.proc[g].pc = IF r.err.nil THEN "Object" ELSE "done"]
    /\ UNCHANGED <<pc, doc, m, layers, groups, cur, ret, acc, unit, ResourcePath,
                   ld, tsu, obu>>

\* xml.Unmarshal reaches the object element: Object.UnmarshalXML
GoObject(g) ==
    /\ pc = "go"
    /\ gor.proc[g].pc = "Object"
    /\ LET r == ObjectUnmarshalXML(ObjectElement("ok", "default.tx", ObjectWith({}, 0)),
                                   TemplateFiles, ResourcePath)
       IN  gor' = [gor EXCEPT
                     !.proc[g].opened = Append(@, r.opened),
                     !.proc[g].err = r.err,
                     !.proc[g].pc = "done"]
    /\ UNCHANGED <<pc, doc, m, layers, groups, cur, ret, acc, unit, ResourcePath,
                   ld, tsu, obu>>

GoNext ==
    \E g \in Goroutines :
        \/ GoNew(g)
        \/ GoStore(g)
        \/ GoTileset(g)
        \/ GoObject(g)

SpecConcurrentNew == GoInit /\ [][GoNext]_vars

(***************************************************************************)
(* Claims.                                                                 *)
(***************************************************************************)
\* the number a uint32 below 2^31 stands for
Nat32(x) == x.hi * Half + x.lo

\* a raw GlobalID with bits 31, 30 and 29 cleared
ClearTop3(g) == U32(g.hi % 8192, g.lo)

Bit(g, n) == IF n >= 16 THEN (g.hi \div (2 ^ (n - 16))) % 2 ELSE (g.lo \div (2 ^ n)) % 2

\* the direct call: its raw references, its tilesets, what it built
UnitCells == unit.in.TileGlobalRefs

UnitDefs == unit.out.l.TileDefs

UnitFailed == unit.out.panic \/ ~unit.out.err.nil

\* the tileset a TileDef points to
TilesetNamed(tss, name) == CHOOSE t \in {tss[i] : i \in 1..Len(tss)} : t.Name = name

\* some tileset starts at or below bare ID b
HasOwner(tss, b) == \E i \in 1..Len(tss) : Nat32(tss[i].FirstGlobalID) <= Nat32(b)

\* C1: with tilesets sorted by FirstGlobalID, a cell whose nonzero bare ID b
\* is at or above some tileset's FirstGlobalID is given to a tileset whose
\* FirstGlobalID is the greatest one that is <= b; the call does not stop
\* at such a cell.
C1_GreatestFirstGlobalID ==
    (unit.done /\ ~unit.tss.nil) =>
        \A i \in 1..Len(UnitCells) :
            LET b == ClearTop3(UnitCells[i].GlobalID)
                tss == unit.tss.v
            IN  (b # Zero32 /\ HasOwner(tss, b)) =>
                    /\ UnitFailed => Len(UnitDefs) + 1 # i
                    /\ i <= Len(UnitDefs) =>
                         /\ ~UnitDefs[i].Nil
                         /\ \E k \in 1..Len(tss) :
                              /\ tss[k].Name = UnitDefs[i].TileSet
                              /\ Nat32(tss[k].FirstGlobalID) <= Nat32(b)
                              /\ \A j \in 1..Len(tss) :
                                   Nat32(tss[j].FirstGlobalID) <= Nat32(b) =>
                                     Nat32(tss[j].FirstGlobalID) <= Nat32(tss[k].FirstGlobalID)

\* tilesets starting at 1, 10 and 50: bare ID 49 went to the one starting at 10
C1_Witness ==
    /\ unit.done
    /\ ~unit.tss.nil
    /\ [i \in 1..Len(unit.tss.v) |-> Nat32(unit.tss.v[i].FirstGlobalID)] = <<1, 10, 50>>
    /\ \E i \in 1..Len(UnitDefs) :
         /\ ClearTop3(UnitCells[i].GlobalID) = ToU32(49)
         /\ Nat32(TilesetNamed(unit.tss.v, UnitDefs[i].TileSet).FirstGlobalID) = 10

\* C2: a cell whose bare ID is 0, whatever its flags, gets a TileDef with
\* Nil = true and no tileset; the call neither fails nor panics at it, even
\* with an empty or nil tileset collection.
C2_ZeroBareIsNil ==
    unit.done =>
        \A i \in 1..Len(UnitCells) :
            ClearTop3(UnitCells[i].GlobalID) = Zero32 =>
                /\ UnitFailed => Len(UnitDefs) + 1 # i
                /\ ~UnitFailed => i <= Len(UnitDefs)
                /\ i <= Len(UnitDefs) => UnitDefs[i] = NilTileDef

\* all three flags on bare ID 0 and no tileset at all: the call succeeded
\* with a nil TileDef
C2_Witness ==
    /\ unit.done
    /\ (unit.tss.nil \/ unit.tss.v = <<>>)
    /\ UnitCells = <<[GlobalID |-> TileFlipped]>>
    /\ ~UnitFailed
    /\ UnitDefs = <<NilTileDef>>

\* the layers the walk resolves, in order
Order == MapWalk(m, groups)

\* layer id as the parser left it, and its raw references
ParsedLayer(id) == DecodeLayerData(NewLayer(doc.layers[id])).l

ParsedRefs(id) == ParsedLayer(id).TileGlobalRefs

\* the map has been parsed, its tilesets sorted, and the walk has begun
InWalk == pc \in {"Walk", "done", "panic"} /\ layers # <<>> /\ ~m.Tilesets.nil

\* g has a nonzero bare ID below the FirstGlobalID of every tileset
Unowned(g) ==
    /\ ClearTop3(g) # Zero32
    /\ \A i \in 1..Len(m.Tilesets.v) :
         Nat32(ClearTop3(g)) < Nat32(m.Tilesets.v[i].FirstGlobalID)

MinOf(S) == CHOOSE x \in S : \A y \in S : x <= y

\* C3: a layer holding a raw GlobalID with a nonzero bare ID below every
\* tileset's FirstGlobalID is never resolved successfully: the walk stops at
\* it, New returns no map and ErrNoSuitableTileset carrying the first such
\* GlobalID, and the cells from that one on get no TileDef.
C3_NoSuitableTilesetFails ==
    InWalk =>
        \A k \in 1..Len(Order) :
            LET id == Order[k]
                refs == ParsedRefs(id)
                bad == {i \in 1..Len(refs) : Unowned(refs[i].GlobalID)}
            IN  bad # {} =>
                    /\ k > cur
                    /\ (k = cur + 1 /\ pc = "done") =>
                         /\ ~ret.m
                         /\ "ErrNoSuitableTileset" \in ret.err.is
                         /\ ret.err.gid = refs[MinOf(bad)].GlobalID
                         /\ Len(layers[id].TileDefs) = MinOf(bad) - 1

\* the failing cell has resolved cells before it and cells after it
C3_Witness ==
    /\ InWalk
    /\ pc = "done"
    /\ "ErrNoSuitableTileset" \in ret.err.is
    /\ Len(layers[Order[cur + 1]].TileDefs) >= 1
    /\ Len(layers[Order[cur + 1]].TileGlobalRefs) >= Len(layers[Order[cur + 1]].TileDefs) + 2

\* C4 (as claimed): a parsed map that declares no tileset and has a tile
\* layer with a nonzero bare ID ends with New returning ErrNoSuitableTileset.
C4_Claim_NoTilesetIsAnError ==
    (/\ pc \in {"done", "panic"}
     /\ layers # <<>>
     /\ doc.tilesets = <<>>
     /\ \E id \in 1..Len(layers) : \E i \in 1..Len(ParsedRefs(id)) :
          ClearTop3(ParsedRefs(id)[i].GlobalID) # Zero32)
        => (pc = "done" /\ ~ret.m /\ "ErrNoSuitableTileset" \in ret.err.is)

\* C5 (as claimed): every tile layer of a map New returned holds exactly
\* Width * Height TileDefs.
C5_Claim_OneTileDefPerCell ==
    (pc = "done" /\ ret.m) =>
        \A id \in 1..Len(layers) :
            Len(layers[id].TileDefs) = layers[id].Width * layers[id].Height

\* C6 (as claimed): GetTileDefAtIndex(i) gives ErrTileDefOutOfBounds and a nil
\* TileDef exactly when i is outside [0, Width*Height), else the TileDef of
\* cell i and no error; GetTileDefAtPosition(row, col) behaves as
\* GetTileDefAtIndex(row*Width + col).
C6_Claim_AccessorOutcome ==
    acc.op # "none" =>
        LET l == layers[acc.l]
            i == IF acc.op = "index" THEN acc.index ELSE acc.row * l.Width + acc.col
        IN  /\ ~acc.panic
            /\ IF i < 0 \/ i >= l.Width * l.Height
               THEN acc.td.nil /\ "ErrTileDefOutOfBounds" \in acc.err.is
               ELSE /\ acc.err.nil
                    /\ ~acc.td.nil
                    /\ i < Len(l.TileDefs)
                    /\ acc.td.v = l.TileDefs[i + 1]

\* C7 (as claimed): GetTileDefAtPosition(row, col) fails with
\* ErrTileDefOutOfBounds whenever row is outside [0, Height) or col is
\* outside [0, Width).
C7_Claim_RowColOutOfBounds ==
    (/\ acc.op = "position"
     /\ ~acc.panic
     /\ \/ acc.row \notin 0..(layers[acc.l].Height - 1)
        \/ acc.col \notin 0..(layers[acc.l].Width - 1))
        => "ErrTileDefOutOfBounds" \in acc.err.is

\* C9: when New returns a map, every tile layer of the document, directly
\* in the map or in a group at any depth, has been resolved: its raw
\* references are released and it has one TileDef per raw reference, each
\* built from it; a group without tile layers and subgroups adds nothing to
\* the walk.
C9_EveryLayerResolved ==
    (pc = "done" /\ ret.m) =>
        /\ Len(layers) = Len(doc.layers)
        /\ \A id \in 1..Len(doc.layers) :
             /\ layers[id].TileGlobalRefs = <<>>
             /\ Len(layers[id].TileDefs) = Len(ParsedRefs(id))
             /\ \A i \in 1..Len(ParsedRefs(id)) :
                  IF ClearTop3(ParsedRefs(id)[i].GlobalID) = Zero32
                  THEN layers[id].TileDefs[i].Nil
                  ELSE layers[id].TileDefs[i].GlobalID = ParsedRefs(id)[i].GlobalID
        /\ \A g \in 1..Len(groups) :
             (groups[g].TileLayers.nil /\ groups[g].Groups.nil) =>
                 GroupWalk(groups, PtrTo(<<g>>)) = <<>>

\* a layer in a group inside a group and a layer of the map itself, both resolved
C9_Witness ==
    /\ pc = "done"
    /\ ret.m
    /\ \E a, b \in 1..Len(layers) :
         /\ doc.layerOwner[a] # 0
         /\ doc.groupParent[doc.layerOwner[a]] # 0
         /\ doc.layerOwner[b] = 0
         /\ layers[a].TileDefs # <<>>
         /\ layers[b].TileDefs # <<>>

\* C10: the walk never goes past a layer whose resolution failed: the layers
\* before the walk's position are fully resolved, the layers after the one
\* it is at are untouched, and a failure at the layer it is at ends New with
\* a nil map and the error.
C10_FailureStopsTheWalk ==
    InWalk =>
        /\ ret.m => cur = Len(Order)
        /\ \A k \in 1..Len(Order) :
             LET id == Order[k]
             IN  /\ k <= cur =>
                      /\ layers[id].TileGlobalRefs = <<>>
                      /\ Len(layers[id].TileDefs) = Len(ParsedRefs(id))
                 /\ k > cur + 1 => layers[id] = ParsedLayer(id)
                 /\ (k = cur + 1 /\ pc = "Walk") => layers[id] = ParsedLayer(id)
                 /\ (k = cur + 1 /\ pc # "Walk") =>
                      /\ ~ret.m
                      /\ ~ret.err.nil
                      /\ "ErrNoSuitableTileset" \in ret.err.is

\* a layer inside a group failed, and a later layer of the walk is left unresolved
C10_Witness ==
    /\ InWalk
    /\ pc = "done"
    /\ ~ret.m
    /\ "ErrNoSuitableTileset" \in ret.err.is
    /\ cur + 1 < Len(Order)
    /\ doc.layerOwner[Order[cur + 1]] # 0
    /\ layers[Order[cur + 2]].TileDefs = <<>>

\* C8: a non-nil TileDef built from raw GlobalID g owned by tileset T keeps
\* g whole, points to T, has ID = (g without bits 31, 30, 29) - T's
\* FirstGlobalID, and its three flip fields are bits 31, 30 and 29 of g.
C8_TileDefFields ==
    (unit.done /\ ~unit.tss.nil) =>
        \A i \in 1..Len(UnitDefs) :
            LET g == UnitCells[i].GlobalID
                d == UnitDefs[i]
            IN  ~d.Nil =>
                    /\ d.GlobalID = g
                    /\ BareID(g) = ClearTop3(g)
                    /\ \E k \in 1..Len(unit.tss.v) :
                         /\ unit.tss.v[k].Name = d.TileSet
                         /\ Nat32(unit.tss.v[k].FirstGlobalID) <= Nat32(ClearTop3(g))
                         /\ d.ID = ToU32(Nat32(ClearTop3(g))
                                         - Nat32(unit.tss.v[k].FirstGlobalID))
                    /\ d.HorizontallyFlipped = (Bit(g, 31) = 1)
                    /\ d.VerticallyFlipped = (Bit(g, 30) = 1)
                    /\ d.DiagonallyFlipped = (Bit(g, 29) = 1)

\* only the horizontal bit on bare ID 9, owned by the tileset starting at 1
C8_Witness ==
    /\ unit.done
    /\ ~unit.tss.nil
    /\ \E i \in 1..Len(UnitDefs) :
         /\ UnitCells[i].GlobalID = Gid({TileFlippedHorizontally}, 9)
         /\ ~UnitDefs[i].Nil
         /\ UnitDefs[i].ID = ToU32(8)
         /\ UnitDefs[i].HorizontallyFlipped
         /\ ~UnitDefs[i].VerticallyFlipped
         /\ ~UnitDefs[i].DiagonallyFlipped

\* the direct call of decodeLayerData: its tags, what it decoded
LdData == ld.in.RawData.v

LdRefs == ld.out.l.TileGlobalRefs

\* C11: csv text of one cell or more is decoded to those cells whatever the
\* compression tag; base64 fails with ErrUnsupportedCompression, decoding
\* nothing, exactly when the compression tag is none of "zlib", "gzip",
\* "zstd", "", and with one of these a stream of whole words framed for it
\* is decoded; encoding "" gives no references and no error; any other
\* encoding fails with ErrUnsupportedEncoding.
C11_TagsDecideTheOutcome ==
    ld.done =>
        /\ ~ld.out.panic
        /\ LdData.Encoding = "csv" =>
             /\ "ErrUnsupportedCompression" \notin ld.out.err.is
             /\ (ld.payload = "text" /\ ld.cells # <<>>) =>
                  /\ ld.out.err.nil
                  /\ LdRefs = [i \in 1..Len(ld.cells) |-> [GlobalID |-> ld.cells[i]]]
        /\ LdData.Encoding = "base64" =>
             IF LdData.Compression \in {"zlib", "gzip", "zstd", ""}
             THEN /\ "ErrUnsupportedCompression" \notin ld.out.err.is
                  /\ (ld.payload = "bytes" /\ Len(ld.bytes) % 4 = 0) =>
                       /\ ld.out.err.nil
                       /\ Len(LdRefs) = Len(ld.bytes) \div 4
             ELSE /\ ld.out.err.is = {"ErrUnsupportedCompression"}
                  /\ LdRefs = <<>>
        /\ LdData.Encoding = "" => (ld.out.err.nil /\ LdRefs = <<>>)
        /\ LdData.Encoding \notin {"csv", "base64", ""} =>
             /\ ld.out.err.is = {"ErrUnsupportedEncoding"}
             /\ LdRefs = <<>>

\* csv text tagged with a compression was decoded as decimal text
C11_Witness ==
    /\ ld.done
    /\ LdData.Encoding = "csv"
    /\ LdData.Compression = "zlib"
    /\ Len(ld.cells) = 2
    /\ ld.out.err.nil
    /\ LdRefs = [i \in 1..2 |-> [GlobalID |-> ld.cells[i]]]

\* C18: with encoding "base64" and no compression, a stream of 4k bytes
\* gives k GlobalIDs in order, the i-th being the little-endian value of
\* its four bytes, all 32 bits kept; a stream whose length is no multiple of
\* 4 makes the call return an error; the empty stream gives no GlobalID and
\* no error.
C18_LittleEndianWords ==
    (ld.done /\ LdData.Encoding = "base64" /\ LdData.Compression = ""
        /\ ld.payload = "bytes") =>
        LET b == ld.bytes
        IN  IF Len(b) % 4 = 0
            THEN /\ ld.out.err.nil
                 /\ ~ld.out.panic
                 /\ Len(LdRefs) = Len(b) \div 4
                 /\ \A i \in 0..(Len(b) \div 4 - 1) :
                      /\ LdRefs[i + 1].GlobalID.lo = b[4 * i + 1] + 256 * b[4 * i + 2]
                      /\ LdRefs[i + 1].GlobalID.hi = b[4 * i + 3] + 256 * b[4 * i + 4]
            ELSE ~ld.out.err.nil

\* two words, the first with flag bits set, were read in order
C18_Witness ==
    /\ ld.done
    /\ LdData.Encoding = "base64"
    /\ LdData.Compression = ""
    /\ ld.bytes = <<1, 160, 1, 160, 160, 1, 1, 1>>
    /\ ld.out.err.nil
    /\ LdRefs = <<[GlobalID |-> U32(40961, 40961)], [GlobalID |-> U32(257, 416)]>>

\* the firstgid an element declares, 0 when it declares none
Declared(el) == IF el.firstgid >= 0 THEN ToU32(el.firstgid) ELSE Zero32

\* the call read the external file
TsuLoaded ==
    tsu.el.xml = "ok" /\ tsu.el.source # "" /\ tsu.file.exists /\ tsu.file.el.xml = "ok"

\* C12: for a tileset declared by source reference, after
\* Tileset.UnmarshalXML the FirstGlobalID is the referencing element's
\* firstgid whenever that is nonzero, whatever the external file declares;
\* the external file's value is there only when the referencing element's
\* value is zero.
C12_ReferencingFirstGlobalIDWins ==
    (tsu.done /\ tsu.el.xml = "ok" /\ tsu.el.source # "") =>
        /\ Declared(tsu.el) # Zero32 => tsu.out.t.FirstGlobalID = Declared(tsu.el)
        /\ tsu.out.t.FirstGlobalID # Declared(tsu.el) =>
             /\ Declared(tsu.el) = Zero32
             /\ TsuLoaded
             /\ tsu.out.t.FirstGlobalID = Declared(tsu.file.el)

\* referencing 5, external 1: the tileset starts at 5
C12_Witness ==
    /\ tsu.done
    /\ TsuLoaded
    /\ tsu.el.firstgid = 5
    /\ tsu.file.el.firstgid = 1
    /\ tsu.out.err.nil
    /\ tsu.out.t.FirstGlobalID = ToU32(5)

\* C13 (as claimed): when an object element carries a template reference
\* and the template is loaded, every field the object left at its zero value
\* holds the value the template declares, and every field the object set
\* keeps the object's value.
C13_Claim_TemplateFillsDefaults ==
    (/\ obu.done
     /\ obu.out.err.nil
     /\ obu.el.template # "") =>
        \A f \in ObjectFields :
            obu.out.o[f] = IF obu.el.o[f] # 0 THEN obu.el.o[f] ELSE obu.file.o[f]

\* C14 (as claimed): when two maps in different directories are decoded at
\* the same time, every external reference a decode opens is under the
\* directory of its own map.
C14_Claim_OwnDirectory ==
    (pc = "go" /\ gor.proc[1].path # gor.proc[2].path) =>
        \A g \in Goroutines :
            \A i \in 1..Len(gor.proc[g].opened) :
                gor.proc[g].opened[i].dir = Dir(gor.proc[g].path)

\* the tilesets of the map are the tileset elements of the document, each once
SameTilesets ==
    /\ Len(m.Tilesets.v) = Len(doc.tilesets)
    /\ {m.Tilesets.v[i] : i \in 1..Len(m.Tilesets.v)} =
           {doc.tilesets[i] : i \in 1..Len(doc.tilesets)}

\* C15: from the first call of decodeTileDefs on, the tileset collection is
\* sorted ascending by FirstGlobalID and holds the tilesets of the
\* document, and no step of the walk, over top-level or group-nested layers,
\* changes it: every call of decodeTileDefs sees a sorted collection.
C15_TilesetsSortedThroughTheWalk ==
    /\ [](pc = "Walk" => ~m.Tilesets.nil)
    /\ []((pc = "Walk" \/ InWalk) =>
             (IsSortedByFirstGlobalID(m.Tilesets.v) /\ SameTilesets))
    /\ [][pc = "Walk" => m' = m]_vars

\* the document declares the tileset starting at 50 before the one starting
\* at 10; a cell with bare ID 10 was resolved against the sorted collection
C15_Witness ==
    /\ pc = "done"
    /\ ret.m
    /\ [i \in 1..Len(doc.tilesets) |-> Nat32(doc.tilesets[i].FirstGlobalID)] = <<50, 10>>
    /\ [i \in 1..Len(m.Tilesets.v) |-> Nat32(m.Tilesets.v[i].FirstGlobalID)] = <<10, 50>>
    /\ \E id \in 1..Len(layers) : \E i \in 1..Len(layers[id].TileDefs) :
         /\ ~layers[id].TileDefs[i].Nil
         /\ Nat32(TilesetNamed(m.Tilesets.v, layers[id].TileDefs[i].TileSet).FirstGlobalID) = 10

\* C16: after decodeTileDefs succeeds on a layer of n raw references, the
\* layer has exactly n TileDefs and TileDefs[i] is the resolution of the
\* i-th raw reference: an empty cell is the nil TileDef in its slot, any
\* other cell a TileDef carrying that cell's GlobalID.
C16_OneTileDefPerReferenceInOrder ==
    (unit.done /\ ~UnitFailed) =>
        /\ Len(UnitDefs) = Len(UnitCells)
        /\ \A i \in 1..Len(UnitCells) :
             IF ClearTop3(UnitCells[i].GlobalID) = Zero32
             THEN UnitDefs[i] = NilTileDef
             ELSE /\ ~UnitDefs[i].Nil
                  /\ UnitDefs[i].GlobalID = UnitCells[i].GlobalID

\* an empty cell followed by a tile: the nil TileDef, then the tile's
C16_Witness ==
    /\ unit.done
    /\ ~UnitFailed
    /\ Len(UnitCells) = 2
    /\ UnitDefs[1] = NilTileDef
    /\ ~UnitDefs[2].Nil
    /\ UnitDefs[2].GlobalID = UnitCells[2].GlobalID

\* C19: after decodeTileDefs returns successfully the layer holds no raw
\* reference any more, and a second call on the same layer succeeds and
\* adds no TileDef.
C19_RawReferencesReleased ==
    (unit.done /\ ~UnitFailed) =>
        /\ unit.out.l.TileGlobalRefs = <<>>
        /\ unit.redone =>
             /\ unit.again.err.nil
             /\ ~unit.again.panic
             /\ unit.again.l.TileDefs = UnitDefs

\* a layer of two cells resolved, then resolved again: still two TileDefs
C19_Witness ==
    /\ unit.redone
    /\ ~UnitFailed
    /\ Len(UnitCells) = 2
    /\ Len(UnitDefs) = 2
    /\ unit.out.l.TileGlobalRefs = <<>>
    /\ Len(unit.again.l.TileDefs) = 2

\* the groups of the document from the map down to group g
RECURSIVE PathTo(_)
PathTo(g) == IF g = 0 THEN <<>> ELSE Append(PathTo(doc.groupParent[g]), g)

\* p is a proper prefix of q
ProperPrefix(p, q) == Len(p) < Len(q) /\ SubSeq(q, 1, Len(p)) = p

\* the order the claim gives two layers of the document: layers of the same
\* holder in document order; a holder's own layers before the layers of the
\* groups below it (the map holds everything); otherwise the order of the
\* two sibling groups at which the ways to the layers part
Before(a, b) ==
    LET p == PathTo(doc.layerOwner[a])
        q == PathTo(doc.layerOwner[b])
        i == MinOf({k \in 1..Len(p) : k > Len(q) \/ p[k] # q[k]})
    IN  IF p = q THEN a < b
        ELSE IF ProperPrefix(p, q) THEN TRUE
        ELSE IF ProperPrefix(q, p) THEN FALSE
        ELSE p[i] < q[i]

\* layer id had raw references and decodeTileDefs has resolved them
Resolved(id) == ParsedRefs(id) # <<>> /\ layers[id].TileGlobalRefs = <<>>

\* C17: tile layers are resolved in this order: the map's own layers in
\* sequence, then for each group in sequence its own layers followed by the
\* walk of its subgroups.  At every moment each resolved layer comes before
\* each layer not yet resolved, and the walk lists every layer once.
C17_DepthFirstOrder ==
    (pc \in {"Walk", "done", "panic"} /\ layers # <<>> /\ ~m.Tilesets.nil) =>
        /\ Len(Order) = Len(layers)
        /\ \A j, k \in 1..Len(Order) : j < k => Before(Order[j], Order[k])
        /\ \A a, b \in 1..Len(layers) :
             (Resolved(a) /\ ~Resolved(b) /\ ParsedRefs(b) # <<>>) => Before(a, b)

\* a group with a subgroup, then a sibling group: the layers of the group
\* and of its subgroup are resolved, in that order, before the layer of the
\* sibling, which the document lists first
C17_Witness ==
    /\ pc = "Walk"
    /\ doc.groupParent = <<0, 1, 0>>
    /\ doc.layerOwner = <<3, 2, 1>>
    /\ Order = <<3, 2, 1>>
    /\ cur = 2
    /\ Resolved(3)
    /\ Resolved(2)
    /\ ~Resolved(1)

\* C20 (as claimed): a tile layer of a map New returned no longer holds its
\* raw payload: RawData is nil.
C20_Claim_RawDataDiscarded ==
    (pc = "done" /\ ret.m) =>
        \A id \in 1..Len(layers) : layers[id].RawData.nil

\* C20 (amended): a tile layer of a map New returned still holds its raw
\* payload, RawData with the encoding tag, compression tag and raw bytes
\* of its data element; resolution releases the decoded references only.
C20_RawDataRetained ==
    (pc = "done" /\ ret.m) =>
        \A id \in 1..Len(layers) :
            /\ ~layers[id].RawData.nil
            /\ layers[id].RawData = doc.layers[id].RawData
            /\ layers[id].TileGlobalRefs = <<>>

\* a resolved layer of four cells that still holds the text of its data element
C20_Witness ==
    /\ pc = "done"
    /\ ret.m
    /\ \E id \in 1..Len(layers) :
         /\ Len(layers[id].TileDefs) = 4
         /\ layers[id].RawData.v.Encoding = "base64"
         /\ layers[id].RawData.v.RawBytes # <<>>

\* the smallest FirstGlobalID of a non-empty collection
MinFirst(tss) == MinOf({Nat32(tss[k].FirstGlobalID) : k \in 1..Len(tss)})

\* C21: decodeTileDefs puts no upper bound on tile IDs.  With a non-empty
\* sorted collection, a cell with a nonzero bare ID makes the call fail
\* exactly when the ID is below the smallest FirstGlobalID; a resolved cell
\* has a local ID that is the bare ID minus a FirstGlobalID not above it, so
\* the subtraction never wraps; an ID at or beyond FirstGlobalID + TileCount
\* of the last tileset goes to the last tileset with a local ID >= TileCount.
C21_NoUpperBoundOnTileIDs ==
    (unit.done /\ ~unit.tss.nil /\ unit.tss.v # <<>>) =>
        LET tss == unit.tss.v
            last == tss[Len(tss)]
        IN  /\ ~unit.out.panic
            /\ \A i \in 1..Len(UnitCells) :
                 LET b == Nat32(ClearTop3(UnitCells[i].GlobalID))
                 IN  b # 0 =>
                       /\ (i = Len(UnitDefs) + 1 /\ UnitFailed) =>
                            /\ b < MinFirst(tss)
                            /\ unit.out.err.is = {"ErrNoSuitableTileset"}
                       /\ i <= Len(UnitDefs) =>
                            LET d == UnitDefs[i]
                                ts == TilesetNamed(tss, d.TileSet)
                            IN  /\ b >= MinFirst(tss)
                                /\ ~d.Nil
                                /\ Nat32(ts.FirstGlobalID) <= b
                                /\ d.ID.hi < Half \div 2
                                /\ Nat32(d.ID) = b - Nat32(ts.FirstGlobalID)
                                /\ b >= Nat32(last.FirstGlobalID) + Nat32(last.TileCount) =>
                                     /\ d.TileSet = last.Name
                                     /\ Nat32(d.ID) >= Nat32(last.TileCount)

\* tilesets starting at 1, 10 and 50, the last with 4 tiles: the largest
\* bare ID, 2^29 - 1, went to the last tileset with local ID 2^29 - 51
C21_Witness ==
    /\ unit.done
    /\ ~unit.tss.nil
    /\ [i \in 1..Len(unit.tss.v) |-> Nat32(unit.tss.v[i].FirstGlobalID)] = <<1, 10, 50>>
    /\ ~UnitFailed
    /\ \E i \in 1..Len(UnitDefs) :
         /\ ClearTop3(UnitCells[i].GlobalID) = MaxBare
         /\ UnitDefs[i].TileSet = unit.tss.v[3].Name
         /\ Nat32(UnitDefs[i].ID) = Nat32(MaxBare) - 50
         /\ Nat32(UnitDefs[i].ID) >= Nat32(unit.tss.v[3].TileCount)

====
